---- MODULE Spec2Model ----
(***************************************************************************)
(* Model of backend/main.py: the upload / status / result endpoints, the   *)
(* in-memory job map and the background task render_video_task that        *)
(* compiles the overlay list into an ffmpeg filter graph, runs the         *)
(* encoder and cleans up the temporary input file.                         *)
(*                                                                         *)
(* render_video_task is a plain (non-async) function, so the framework     *)
(* runs it on a worker thread: its statements interleave with the          *)
(* endpoints and with the tasks of other jobs.  Every statement of the     *)
(* task that reads or writes the job map or the storage directory is its   *)
(* own action.  A call that can raise (print, json.loads, a subscript of   *)
(* the overlay dict, subprocess.run) is a nondeterministic choice between  *)
(* returning and raising.  The encoder is an external process: its exit    *)
(* code and whether it leaves an output file are chosen nondeterministic-  *)
(* ally.                                                                   *)
(***************************************************************************)
EXTENDS Integers, Sequences, FiniteSets, TLC

\* ----------------------------------------------------------------- bounds
MaxJobs == 2
MaxOverlays == 3

JobIds == 1..MaxJobs

\* ------------------------------------------------------------------ paths
STORAGE_DIR == "rendered_videos"

\* The value None of result_path.
None == <<"None">>

\* os.path.join(STORAGE_DIR, f"{job_id}_{filename}")
TempPath(job_id, filename) == <<STORAGE_DIR, job_id, filename>>

\* The output path without the job id in it: one path for all jobs.
OutputPathShared(job_id) == <<STORAGE_DIR, 0, "final.mp4">>

\* os.path.join(STORAGE_DIR, f"{job_id}_final.mp4")
OutputPath(job_id) == <<STORAGE_DIR, job_id, "final.mp4">>

\* os.path.join(os.getcwd(), 'assets', 'logo.png')
ImagePath == <<"assets", 0, "logo.png">>

\* os.path.join(os.getcwd(), 'assets', 'Arial.ttf')
FontPath == <<"assets", 0, "Arial.ttf">>

\* File names a client may give its upload; "final.mp4" makes the temporary
\* input path of a job equal to its output path.
FileNames == {"in.mp4", "final.mp4"}

\* --------------------------------------------------------------- overlays
\* An overlay is one JSON object of the metadata: keys is the set of keys
\* the object has, the other fields are the values of the keys it has.
AllKeys == {"type", "start_time", "end_time", "content", "x_pos", "y_pos"}

Overlay(type, keys, content) ==
    [type |-> type, keys |-> keys, start_time |-> 0, end_time |-> 2,
     content |-> content, x_pos |-> 10, y_pos |-> 20]

TextHi == Overlay("text", AllKeys, <<"H", "i">>)
TextQuote == Overlay("text", AllKeys \ {"x_pos", "y_pos"}, <<"'", "s">>)
TextNoContent == Overlay("text", AllKeys \ {"content"}, <<>>)
Image == Overlay("image", {"type", "start_time", "end_time"}, <<>>)
ImageNoEnd == Overlay("image", {"type", "start_time"}, <<>>)
Sticker == Overlay("sticker", {"type", "start_time", "end_time"}, <<>>)

OverlayInputs == {TextHi, TextQuote, TextNoContent, Image, ImageNoEnd, Sticker}

SeqUpTo(S, n) == UNION {[1..k -> S] : k \in 0..n}

\* The metadata string of an upload, by what json.loads makes of it: valid
\* is FALSE for a string that is no JSON object, and overlays is the list
\* under the key 'overlays' (empty when the key is absent).
Metadata(valid, overlays) == [valid |-> valid, overlays |-> overlays]
BadMetadata == Metadata(FALSE, <<>>)

\* Metadata strings sent by the clients of the lifecycle specification.
UploadMetadata ==
    {BadMetadata, Metadata(TRUE, <<TextHi>>), Metadata(TRUE, <<Sticker>>),
     Metadata(TRUE, <<ImageNoEnd>>)}

\* Metadata strings compiled by the compiler specification.
CompileMetadata ==
    {Metadata(TRUE, ovs) : ovs \in SeqUpTo(OverlayInputs, MaxOverlays)}

\* ------------------------------------------------------------------ state
VARIABLES
    job_status,         \* the job map: job id -> record (main.py:17)
    files,              \* paths that exist on storage
    uploads,            \* number of /upload requests served (one uuid each)
    pc,                 \* position of each job's render_video_task
    args,               \* arguments the task was scheduled with
    overlays,           \* task local: the parsed overlay list
    idx,                \* task local: position of the for loop in overlays
    input_files,        \* task local (main.py:39)
    filter_complex_list,\* task local (main.py:40)
    current_stream,     \* task local (main.py:41)
    filter_count,       \* task local (main.py:42)
    asset_input_index,  \* task local (main.py:43)
    command,            \* task local (main.py:98)
    skipped,            \* positions of the overlays each task skipped (main.py:75-77)
    exit_code,          \* outcome of the encoder process of each job
    rendered,           \* TRUE once the encoder of the job left an output file
    raised,             \* statements of each task that raised, in order
    escaped,            \* TRUE once an exception left render_video_task
    removed             \* paths each task passed to os.remove, in order

locals == <<overlays, idx, input_files, filter_complex_list, current_stream,
            filter_count, asset_input_index, command>>
history == <<skipped, exit_code, rendered, raised, escaped, removed>>
vars == <<job_status, files, uploads, pc, args, locals, history>>

\* ------------------------------------------------- filter-graph compiler
\* f"[v{filter_count}]"
NewStream(n) == <<"v", n>>

\* f"[img_scaled{filter_count}]"
ScaleStream(n) == <<"img_scaled", n>>

\* "[0:v]" and f"[{asset_input_index}:v]"
InputStream(n) == <<"in", n>>

\* overlay.get(key, default)
Get(overlay, key, default) ==
    IF key \in overlay.keys THEN overlay[key] ELSE default

\* overlay['content'].replace("'", "\\'")
RECURSIVE Escape(_)
Escape(text) ==
    IF text = <<>> THEN <<>>
    ELSE (IF Head(text) = "'" THEN <<"\\", "'">> ELSE <<Head(text)>>)
         \o Escape(Tail(text))

\* One filter of the graph with its input and output stream labels.
Stage(ins, filter, out) == [ins |-> ins, filter |-> filter, out |-> out]

\* A separator written between two stages of the filter graph string.
Sep(text) == [sep |-> text]

\* text_filter (main.py:61-66)
TextFilter(overlay) ==
    [name |-> "drawtext", text |-> Escape(overlay.content),
     fontfile |-> FontPath, fontcolor |-> "yellow", fontsize |-> 48,
     x |-> Get(overlay, "x_pos", 50), y |-> Get(overlay, "y_pos", 50),
     enable |-> <<overlay.start_time, overlay.end_time>>]

\* f"{current_stream}{text_filter}{new_stream}" (main.py:68)
TextEntry(current, overlay, count) ==
    <<Stage(<<current>>, TextFilter(overlay), NewStream(count))>>

\* scale_filter (main.py:82)
ScaleFilter(asset_index, count) ==
    Stage(<<InputStream(asset_index)>>, [name |-> "scale", w |-> 150, h |-> -1],
          ScaleStream(count))

\* overlay_filter (main.py:85-88)
OverlayFilter(overlay) ==
    [name |-> "overlay", position |-> <<"W-w-20", "20">>,
     enable |-> <<overlay.start_time, overlay.end_time>>]

\* f"{scale_filter}; {current_stream}{scale_stream}{overlay_filter}{new_stream}"
ImageEntry(current, overlay, asset_index, count) ==
    <<ScaleFilter(asset_index, count), Sep("; "),
      Stage(<<current, ScaleStream(count)>>, OverlayFilter(overlay), NewStream(count))>>

\* The subscripts of the loop body that raise KeyError for this overlay:
\* overlay['start_time'], overlay['end_time'], overlay['type'] and, for a
\* text overlay, overlay['content'].
LoopRaises(overlay) ==
    \/ "start_time" \notin overlay.keys
    \/ "end_time" \notin overlay.keys
    \/ "type" \notin overlay.keys
    \/ overlay.type = "text" /\ "content" \notin overlay.keys

\* ", ".join(filter_complex_list)
RECURSIVE Join(_, _)
Join(list, sep) ==
    IF list = <<>> THEN <<>>
    ELSE IF Len(list) = 1 THEN Head(list)
    ELSE Head(list) \o <<Sep(sep)>> \o Join(Tail(list), sep)

\* The command with the audio stream mapped as required ("0:a") instead of
\* optional ("0:a?").
CommandAudioRequired(inputs, list, stream, output_path) ==
    inputs \o <<"-filter_complex", Join(list, ", "), "-map", stream,
                "-map", "0:a", "-c:v", "libx264", "-crf", "23",
                "-preset", "veryfast", "-c:a", "aac", "-b:a", "192k",
                output_path>>

\* command (main.py:98-109)
Command(inputs, list, stream, output_path) ==
    inputs \o <<"-filter_complex", Join(list, ", "), "-map", stream,
                "-map", "0:a?", "-c:v", "libx264", "-crf", "23",
                "-preset", "veryfast", "-c:a", "aac", "-b:a", "192k",
                output_path>>

\* ---------------------------------------------------------------- set-up
Response(op, job_id, code, body) ==
    [op |-> op, job_id |-> job_id, code |-> code, body |-> body]

TypeDefaults ==
    /\ overlays = [j \in JobIds |-> <<>>]
    /\ idx = [j \in JobIds |-> 0]
    /\ input_files = [j \in JobIds |-> <<>>]
    /\ filter_complex_list = [j \in JobIds |-> <<>>]
    /\ current_stream = [j \in JobIds |-> None]
    /\ filter_count = [j \in JobIds |-> 0]
    /\ asset_input_index = [j \in JobIds |-> 0]
    /\ command = [j \in JobIds |-> <<>>]
    /\ skipped = [j \in JobIds |-> {}]
    /\ exit_code = [j \in JobIds |-> "none"]
    /\ rendered = [j \in JobIds |-> FALSE]
    /\ raised = [j \in JobIds |-> <<>>]
    /\ escaped = [j \in JobIds |-> FALSE]
    /\ removed = [j \in JobIds |-> <<>>]

\* The server after start-up: an empty job map (main.py:17) and an empty
\* storage directory (main.py:14).
Init ==
    /\ job_status = <<>>
    /\ files = {}
    /\ uploads = 0
    /\ pc = [j \in JobIds |-> "none"]
    /\ args = [j \in JobIds |-> [job_id |-> j, video_path |-> None, metadata_str |-> BadMetadata]]
    /\ TypeDefaults

\* The record upload_video stores for a new job (main.py:155-160).
NewJob(video_path, metadata) ==
    [status |-> "PENDING", video_path |-> video_path,
     metadata |-> metadata, result_path |-> None]

\* ------------------------------------------------------------- endpoints
\* POST /upload (main.py:135-165).  save is the outcome of writing the
\* uploaded bytes: "ok", or open() raised, or f.write() raised after the
\* file was created.  Scheduling the background task makes it startable.
Upload(filename, metadata, save) ==
    LET job_id == uploads + 1
        temp_video_path == TempPath(job_id, filename)
    IN  /\ uploads < MaxJobs
        /\ uploads' = job_id
        /\ IF save = "ok"
           THEN /\ files' = files \cup {temp_video_path}
                /\ job_status' = job_status @@ (job_id :> NewJob(temp_video_path, metadata))
                /\ pc' = [pc EXCEPT ![job_id] = "scheduled"]
                /\ args' = [args EXCEPT ![job_id] =
                              [job_id |-> job_id, video_path |-> temp_video_path,
                               metadata_str |-> metadata]]
           ELSE /\ files' = IF save = "write_raises"
                            THEN files \cup {temp_video_path} ELSE files
                /\ UNCHANGED <<job_status, pc, args>>
        /\ UNCHANGED <<locals, history>>

\* What GET /status/{job_id} answers (main.py:168-175).
StatusResponse(job_id) ==
    IF job_id \notin DOMAIN job_status
    THEN Response("status", job_id, 404, None)
    ELSE Response("status", job_id, 200, <<job_status[job_id].status>>)

\* Mutant of ResultResponse: the file is served without the check that it
\* exists.
ResultResponseUnchecked(job_id) ==
    IF job_id \notin DOMAIN job_status
    THEN Response("result", job_id, 404, None)
    ELSE IF job_status[job_id].status # "COMPLETE"
    THEN Response("result", job_id, 409, None)
    ELSE Response("result", job_id, 200, job_status[job_id].result_path)

\* What GET /result/{job_id} answers (main.py:178-200).
ResultResponse(job_id) ==
    IF job_id \notin DOMAIN job_status
    THEN Response("result", job_id, 404, None)
    ELSE IF job_status[job_id].status # "COMPLETE"
    THEN Response("result", job_id, 409, None)
    ELSE IF job_status[job_id].result_path = None
            \/ job_status[job_id].result_path \notin files
    THEN Response("result", job_id, 500, None)
    ELSE Response("result", job_id, 200, job_status[job_id].result_path)

\* The two GET endpoints only read the job map and the storage: a request
\* is answered with StatusResponse or ResultResponse of the current state
\* and changes nothing.  Neither handler awaits, so each is one step.
GetStatus(job_id) ==
    /\ StatusResponse(job_id).code \in {200, 404}
    /\ UNCHANGED vars

GetResult(job_id) ==
    /\ ResultResponse(job_id).code \in {200, 404, 409, 500}
    /\ UNCHANGED vars

\* ----------------------------------------------------- render_video_task
\* job_status[job_id]["status"] = status
SetStatus(jobs, job_id, status) == [jobs EXCEPT ![job_id].status = status]

\* Mutant of SetResultPath: the path is not stored.
SetResultPathForgotten(jobs, job_id, path) == jobs

\* job_status[job_id]["result_path"] = path
SetResultPath(jobs, job_id, path) == [jobs EXCEPT ![job_id].result_path = path]

\* A statement of block `block` ("try", "except" or "finally") of task j
\* raises, and control goes to `target`.
Raise(j, block, target) ==
    /\ raised' = [raised EXCEPT ![j] = Append(@, block)]
    /\ pc' = [pc EXCEPT ![j] = target]

Goto(j, target) ==
    /\ pc' = [pc EXCEPT ![j] = target]
    /\ UNCHANGED raised

\* main.py:28-29: the task starts; the print may raise.
Start(j) ==
    /\ pc[j] = "scheduled"
    /\ job_status' = SetStatus(job_status, args[j].job_id, "PROCESSING")
    /\ \E printed \in BOOLEAN :
         IF printed THEN Goto(j, "parse") ELSE Raise(j, "try", "except")
    /\ UNCHANGED <<files, uploads, args, locals, skipped, exit_code, rendered, escaped, removed>>

\* main.py:32-43: json.loads raises for a string that is no JSON object;
\* otherwise the locals of the compiler are initialised.
Parse(j) ==
    /\ pc[j] = "parse"
    /\ IF ~args[j].metadata_str.valid
       THEN /\ Raise(j, "try", "except")
            /\ UNCHANGED locals
       ELSE /\ overlays' = [overlays EXCEPT ![j] = args[j].metadata_str.overlays]
            /\ idx' = [idx EXCEPT ![j] = 1]
            /\ input_files' = [input_files EXCEPT ![j] =
                                 <<"ffmpeg", "-y", "-i", args[j].video_path>>]
            /\ filter_complex_list' = [filter_complex_list EXCEPT ![j] = <<>>]
            /\ current_stream' = [current_stream EXCEPT ![j] = InputStream(0)]
            /\ filter_count' = [filter_count EXCEPT ![j] = 0]
            /\ asset_input_index' = [asset_input_index EXCEPT ![j] = 1]
            /\ Goto(j, "loop")
            /\ UNCHANGED command
    /\ UNCHANGED <<job_status, files, uploads, args, skipped, exit_code, rendered, escaped, removed>>

\* The compiler's locals of task j as one record.
Locals(j) ==
    [input_files |-> input_files[j],
     filter_complex_list |-> filter_complex_list[j],
     current_stream |-> current_stream[j],
     filter_count |-> filter_count[j],
     asset_input_index |-> asset_input_index[j]]

\* Mutant of LoopBody: a text overlay does not advance the cursor.
LoopBodyStaleCursor(l, overlay, exists) ==
    LET count == l.filter_count + 1
        counted == [l EXCEPT !.filter_count = count]
    IN  IF overlay.type = "text"
        THEN [counted EXCEPT
                !.filter_complex_list =
                    Append(@, TextEntry(l.current_stream, overlay, count))]
        ELSE IF overlay.type = "image"
        THEN IF ~exists
             THEN counted
             ELSE [counted EXCEPT
                     !.input_files = @ \o <<"-i", ImagePath>>,
                     !.filter_complex_list =
                         Append(@, ImageEntry(l.current_stream, overlay,
                                              l.asset_input_index, count)),
                     !.current_stream = NewStream(count),
                     !.asset_input_index = @ + 1]
        ELSE counted

\* Mutant of LoopBody: a skipped image overlay advances the cursor.
LoopBodySkipAdvances(l, overlay, exists) ==
    LET count == l.filter_count + 1
        counted == [l EXCEPT !.filter_count = count]
    IN  IF overlay.type = "text"
        THEN [counted EXCEPT
                !.filter_complex_list =
                    Append(@, TextEntry(l.current_stream, overlay, count)),
                !.current_stream = NewStream(count)]
        ELSE IF overlay.type = "image"
        THEN IF ~exists
             THEN [counted EXCEPT !.current_stream = NewStream(count)]
             ELSE [counted EXCEPT
                     !.input_files = @ \o <<"-i", ImagePath>>,
                     !.filter_complex_list =
                         Append(@, ImageEntry(l.current_stream, overlay,
                                              l.asset_input_index, count)),
                     !.current_stream = NewStream(count),
                     !.asset_input_index = @ + 1]
        ELSE counted

\* The loop body with every stage reading the primary stream instead of
\* the cursor.
LoopBodyFromPrimary(l, overlay, exists) ==
    LET count == l.filter_count + 1
        counted == [l EXCEPT !.filter_count = count]
    IN  IF overlay.type = "text"
        THEN [counted EXCEPT
                !.filter_complex_list =
                    Append(@, TextEntry(InputStream(0), overlay, count)),
                !.current_stream = NewStream(count)]
        ELSE IF overlay.type = "image"
        THEN IF ~exists
             THEN counted
             ELSE [counted EXCEPT
                     !.input_files = @ \o <<"-i", ImagePath>>,
                     !.filter_complex_list =
                         Append(@, ImageEntry(InputStream(0), overlay,
                                              l.asset_input_index, count)),
                     !.current_stream = NewStream(count),
                     !.asset_input_index = @ + 1]
        ELSE counted

\* The loop body with the scaling sub-stage reading the encoder input
\* numbered by the overlay counter instead of the asset input index.
LoopBodyIndexByCount(l, overlay, exists) ==
    LET count == l.filter_count + 1
        counted == [l EXCEPT !.filter_count = count]
    IN  IF overlay.type = "text"
        THEN [counted EXCEPT
                !.filter_complex_list =
                    Append(@, TextEntry(l.current_stream, overlay, count)),
                !.current_stream = NewStream(count)]
        ELSE IF overlay.type = "image"
        THEN IF ~exists
             THEN counted
             ELSE [counted EXCEPT
                     !.input_files = @ \o <<"-i", ImagePath>>,
                     !.filter_complex_list =
                         Append(@, ImageEntry(l.current_stream, overlay,
                                              count, count)),
                     !.current_stream = NewStream(count),
                     !.asset_input_index = @ + 1]
        ELSE counted

\* One iteration of the for loop (main.py:46-92) that does not raise, on
\* the locals l; exists is the answer of os.path.exists(image_path).
LoopBody(l, overlay, exists) ==
    LET count == l.filter_count + 1
        counted == [l EXCEPT !.filter_count = count]
    IN  IF overlay.type = "text"
        THEN [counted EXCEPT
                !.filter_complex_list =
                    Append(@, TextEntry(l.current_stream, overlay, count)),
                !.current_stream = NewStream(count)]
        ELSE IF overlay.type = "image"
        THEN IF ~exists
             THEN counted
             ELSE [counted EXCEPT
                     !.input_files = @ \o <<"-i", ImagePath>>,
                     !.filter_complex_list =
                         Append(@, ImageEntry(l.current_stream, overlay,
                                              l.asset_input_index, count)),
                     !.current_stream = NewStream(count),
                     !.asset_input_index = @ + 1]
        ELSE counted

SetLocals(j, l) ==
    /\ input_files' = [input_files EXCEPT ![j] = l.input_files]
    /\ filter_complex_list' = [filter_complex_list EXCEPT ![j] = l.filter_complex_list]
    /\ current_stream' = [current_stream EXCEPT ![j] = l.current_stream]
    /\ filter_count' = [filter_count EXCEPT ![j] = l.filter_count]
    /\ asset_input_index' = [asset_input_index EXCEPT ![j] = l.asset_input_index]

\* main.py:46-92: the for loop, one overlay per step; after the last
\* overlay control goes on to the command.  The print that reports a
\* missing image asset (main.py:76) may raise.
Loop(j) ==
    /\ pc[j] = "loop"
    /\ IF idx[j] > Len(overlays[j])
       THEN /\ Goto(j, "build")
            /\ UNCHANGED <<locals, skipped>>
       ELSE LET overlay == overlays[j][idx[j]]
            IN  IF LoopRaises(overlay)
                THEN /\ filter_count' = [filter_count EXCEPT ![j] = @ + 1]
                     /\ Raise(j, "try", "except")
                     /\ UNCHANGED <<overlays, idx, input_files, filter_complex_list,
                                    current_stream, asset_input_index, command, skipped>>
                ELSE \E exists, printed \in BOOLEAN :
                       /\ SetLocals(j, LoopBody(Locals(j), overlay, exists))
                       /\ skipped' = [skipped EXCEPT ![j] =
                                        IF overlay.type = "image" /\ ~exists
                                        THEN @ \cup {idx[j]} ELSE @]
                       /\ IF overlay.type = "image" /\ ~exists /\ ~printed
                          THEN Raise(j, "try", "except") /\ UNCHANGED idx
                          ELSE Goto(j, "loop") /\ idx' = [idx EXCEPT ![j] = @ + 1]
                       /\ UNCHANGED <<overlays, command>>
    /\ UNCHANGED <<job_status, files, uploads, args, exit_code, rendered, escaped, removed>>

\* main.py:96-111: the command is built; the print may raise.
Build(j) ==
    /\ pc[j] = "build"
    /\ command' = [command EXCEPT ![j] =
                     Command(input_files[j], filter_complex_list[j], current_stream[j],
                             OutputPath(args[j].job_id))]
    /\ \E printed \in BOOLEAN :
         IF printed THEN Goto(j, "run") ELSE Raise(j, "try", "except")
    /\ UNCHANGED <<job_status, files, uploads, args, overlays, idx, input_files,
                   filter_complex_list, current_stream, filter_count, asset_input_index,
                   skipped, exit_code, rendered, escaped, removed>>

\* The path the encoder writes: the last argument of its command line.
EncoderOutput(cmd) == cmd[Len(cmd)]

\* main.py:114: subprocess.run(command, check=True).  The encoder exits
\* zero, or non-zero (CalledProcessError), or cannot be started (OSError);
\* a started encoder may or may not leave a file at its output path.
Run(j) ==
    /\ pc[j] = "run"
    /\ \E outcome \in {"zero", "nonzero", "oserror"}, wrote \in BOOLEAN :
         /\ outcome = "oserror" => ~wrote
         /\ exit_code' = [exit_code EXCEPT ![j] = outcome]
         /\ files' = IF wrote THEN files \cup {EncoderOutput(command[j])} ELSE files
         /\ rendered' = [rendered EXCEPT ![j] = wrote]
         /\ CASE outcome = "zero" -> Goto(j, "set_result")
              [] outcome = "nonzero" -> Raise(j, "try", "except_called_process_error")
              [] outcome = "oserror" -> Raise(j, "try", "except")
    /\ UNCHANGED <<job_status, uploads, args, locals, skipped, escaped, removed>>

\* main.py:116
SetResult(j) ==
    /\ pc[j] = "set_result"
    /\ job_status' = SetResultPath(job_status, args[j].job_id, OutputPath(args[j].job_id))
    /\ Goto(j, "set_status")
    /\ UNCHANGED <<files, uploads, args, locals, skipped, exit_code, rendered, escaped, removed>>

\* main.py:117-118: the status write, then a print that may raise inside
\* the try block.
SetComplete(j) ==
    /\ pc[j] = "set_status"
    /\ job_status' = SetStatus(job_status, args[j].job_id, "COMPLETE")
    /\ \E printed \in BOOLEAN :
         IF printed THEN Goto(j, "finally") ELSE Raise(j, "try", "except")
    /\ UNCHANGED <<files, uploads, args, locals, skipped, exit_code, rendered, escaped, removed>>

\* The body of either handler: a print, then the status write.  When the
\* print raises the status write is not reached and the new exception
\* propagates through the finally block.
Handler(j) ==
    /\ \E printed \in BOOLEAN :
         IF printed
         THEN /\ job_status' = SetStatus(job_status, args[j].job_id, "FAILED")
              /\ Goto(j, "finally")
         ELSE /\ Raise(j, "except", "finally")
              /\ UNCHANGED job_status
    /\ UNCHANGED <<files, uploads, args, locals, skipped, exit_code, rendered, escaped, removed>>

\* main.py:120-122
ExceptCalledProcessError(j) ==
    /\ pc[j] = "except_called_process_error"
    /\ Handler(j)

\* main.py:124-126
ExceptException(j) ==
    /\ pc[j] = "except"
    /\ Handler(j)

\* Mutant of Remove: the file is left on storage.
RemoveNothing(storage, path) == storage

\* os.remove(path) on the storage
Remove(storage, path) == storage \ {path}

\* main.py:128-131: the finally block, and the end of the task.  An
\* exception raised by a handler, or by the print of this block, leaves
\* render_video_task.
Finally(j) ==
    /\ pc[j] = "finally"
    /\ IF args[j].video_path \in files
       THEN /\ files' = Remove(files, args[j].video_path)
            /\ removed' = [removed EXCEPT ![j] = Append(@, args[j].video_path)]
            /\ \E printed \in BOOLEAN :
                 IF printed THEN Goto(j, "done") ELSE Raise(j, "finally", "done")
       ELSE /\ Goto(j, "done")
            /\ UNCHANGED <<files, removed>>
    /\ escaped' = [escaped EXCEPT ![j] =
                     \E k \in 1..Len(raised'[j]) : raised'[j][k] \in {"except", "finally"}]
    /\ UNCHANGED <<job_status, uploads, args, locals, skipped, exit_code, rendered>>

Task(j) ==
    \/ Start(j)
    \/ Parse(j)
    \/ Loop(j)
    \/ Build(j)
    \/ Run(j)
    \/ SetResult(j)
    \/ SetComplete(j)
    \/ ExceptCalledProcessError(j)
    \/ ExceptException(j)
    \/ Finally(j)

\* -------------------------------------------------------- specifications
Next ==
    \/ \E filename \in FileNames, metadata \in UploadMetadata,
          save \in {"ok", "open_raises", "write_raises"} :
          Upload(filename, metadata, save)
    \/ \E job_id \in JobIds : GetStatus(job_id)
    \/ \E job_id \in JobIds : GetResult(job_id)
    \/ \E j \in JobIds : Task(j)

Spec == Init /\ [][Next]_vars

\* The compiler specification: one job, uploaded with any metadata of
\* CompileMetadata and scheduled, and the steps of its task.
InitCompile ==
    /\ \E metadata \in CompileMetadata :
         /\ job_status = (1 :> NewJob(TempPath(1, "in.mp4"), metadata))
         /\ args = [j \in JobIds |->
                      IF j = 1
                      THEN [job_id |-> 1, video_path |-> TempPath(1, "in.mp4"),
                            metadata_str |-> metadata]
                      ELSE [job_id |-> j, video_path |-> None, metadata_str |-> BadMetadata]]
    /\ files = {TempPath(1, "in.mp4")}
    /\ uploads = 1
    /\ pc = [j \in JobIds |-> IF j = 1 THEN "scheduled" ELSE "none"]
    /\ TypeDefaults

NextCompile == Task(1)

SpecCompile == InitCompile /\ [][NextCompile]_vars

\* The escaping specification: one job, uploaded with one text overlay of
\* any content over ContentAlphabet and scheduled, and the steps of its
\* task.
MaxContentLen == 2

ContentAlphabet == {"a", "'", ":", "\\"}

EscapeMetadata ==
    {Metadata(TRUE, <<Overlay("text", AllKeys, content)>>) :
        content \in SeqUpTo(ContentAlphabet, MaxContentLen)}

InitEscape ==
    /\ \E metadata \in EscapeMetadata :
         /\ job_status = (1 :> NewJob(TempPath(1, "in.mp4"), metadata))
         /\ args = [j \in JobIds |->
                      IF j = 1
                      THEN [job_id |-> 1, video_path |-> TempPath(1, "in.mp4"),
                            metadata_str |-> metadata]
                      ELSE [job_id |-> j, video_path |-> None, metadata_str |-> BadMetadata]]
    /\ files = {TempPath(1, "in.mp4")}
    /\ uploads = 1
    /\ pc = [j \in JobIds |-> IF j = 1 THEN "scheduled" ELSE "none"]
    /\ TypeDefaults

NextEscape == Task(1)

SpecEscape == InitEscape /\ [][NextEscape]_vars

\* ================================================================ claims
Jobs == DOMAIN job_status

Status(j) == job_status[j].status

\* The elements of a sequence, as a set.
Elems(seq) == {seq[k] : k \in 1..Len(seq)}

\* ------------------------------------------------------------------- C1
\* C1 (as claimed): a job is created PENDING, and its status only ever
\* changes by PENDING -> PROCESSING, PROCESSING -> COMPLETE or
\* PROCESSING -> FAILED.
ForwardSteps ==
    {<<"PENDING", "PROCESSING">>, <<"PROCESSING", "COMPLETE">>,
     <<"PROCESSING", "FAILED">>}

C1_StatusOnlyMovesForward ==
    [][/\ \A j \in Jobs :
            job_status'[j].status # job_status[j].status
            => <<job_status[j].status, job_status'[j].status>> \in ForwardSteps
       /\ \A j \in DOMAIN job_status' \ Jobs : job_status'[j].status = "PENDING"]_vars

\* ------------------------------------------------------------------- C2
\* C2: once render_video_task of a job has ended, whatever raised on the
\* way, the job's temporary input file is gone from storage, the task
\* removed it exactly once, and no other task ever removed it.
C2_InputFileRemovedOnce ==
    \A j \in JobIds :
        /\ pc[j] = "done"
           => /\ args[j].video_path \notin files
              /\ removed[j] = <<args[j].video_path>>
        /\ pc[j] # "none"
           => \A k \in JobIds \ {j} : args[j].video_path \notin Elems(removed[k])

\* A task whose handler raised has ended with an escaping exception, and
\* its input file was removed all the same.
C2_Witness ==
    \E j \in JobIds :
        /\ pc[j] = "done"
        /\ "except" \in Elems(raised[j])
        /\ removed[j] = <<args[j].video_path>>
        /\ args[j].video_path \notin files

\* ------------------------------------------------------------------- C3
\* C3 (as claimed): whenever a job's status becomes COMPLETE the encoder
\* has exited with code zero, the output file exists on storage, and
\* result_path is the job's output path.
C3_CompleteOnlyWithOutputFile ==
    [][\A j \in Jobs :
          (job_status[j].status # "COMPLETE" /\ job_status'[j].status = "COMPLETE")
          => /\ exit_code[j] = "zero"
             /\ OutputPath(j) \in files
             /\ job_status'[j].result_path = OutputPath(j)]_vars

\* C3 (amended): a job's status is COMPLETE only after the encoder has
\* exited with code zero, and in every state where the status is COMPLETE
\* result_path is the job's output path; the existence of the output file
\* is not checked before the status is set.
C3_CompleteOnlyAfterExitZero ==
    \A j \in Jobs :
        Status(j) = "COMPLETE"
        => /\ exit_code[j] = "zero"
           /\ job_status[j].result_path = OutputPath(j)

\* A job is COMPLETE although its encoder left no output file.
C3_Witness ==
    \E j \in Jobs :
        /\ Status(j) = "COMPLETE"
        /\ exit_code[j] = "zero"
        /\ ~rendered[j]
        /\ OutputPath(j) \notin files

\* ------------------------------------------------------------------- C4
\* C4 (as claimed): when a task has ended no exception has left
\* render_video_task, and a task in which anything raised has left its
\* job FAILED.
C4_ErrorsCaughtAndFailed ==
    \A j \in Jobs :
        pc[j] = "done"
        => /\ ~escaped[j]
           /\ raised[j] # <<>> => Status(j) = "FAILED"

\* ------------------------------------------------------------------- C5
\* C5 (as claimed): once a job's status is COMPLETE or FAILED no step
\* changes its status or its result_path.
C5_TerminalStatesSticky ==
    [][\A j \in Jobs :
          job_status[j].status \in {"COMPLETE", "FAILED"}
          => /\ job_status'[j].status = job_status[j].status
             /\ job_status'[j].result_path = job_status[j].result_path]_vars

\* ------------------------------------------------------------------- C6
\* C6 (as claimed): at every point after a successful encoder exit that
\* left the output file, the cleanup step included and for every uploaded
\* file name, a COMPLETE job's status query answers COMPLETE and its
\* result query returns a path whose file exists.
C6_ResultSurvivesCleanup ==
    \A j \in Jobs :
        (Status(j) = "COMPLETE" /\ rendered[j])
        => /\ StatusResponse(j).body = <<"COMPLETE">>
           /\ ResultResponse(j).code = 200
           /\ ResultResponse(j).body \in files

\* ------------------------------------------------------------------- C7
\* An overlay the submission interface accepts: a known kind with its
\* required fields.
ValidOverlay(overlay) ==
    /\ {"type", "start_time", "end_time"} \subseteq overlay.keys
    /\ overlay.type \in {"text", "image"}
    /\ overlay.type = "text" => "content" \in overlay.keys

ValidMetadata(metadata) ==
    /\ metadata.valid
    /\ \A k \in 1..Len(metadata.overlays) : ValidOverlay(metadata.overlays[k])

\* C7 (as claimed): a submission whose overlay list is not valid creates
\* no job record and schedules no unit of work, so every job of the map
\* and every scheduled task has a valid overlay list.
C7_InvalidSubmissionCreatesNoJob ==
    /\ \A j \in Jobs : ValidMetadata(job_status[j].metadata)
    /\ \A j \in JobIds : pc[j] # "none" => ValidMetadata(args[j].metadata_str)

\* ------------------------------------------------------------------- C8
\* C8: at every point of every job's lifecycle the result query answers
\* 404 exactly for an unknown id, 409 exactly for a known job that is not
\* COMPLETE, 500 exactly for a COMPLETE job whose result_path is unset or
\* whose file is missing, and otherwise 200 with the result_path of a
\* COMPLETE job whose file exists; the status query answers 404 exactly
\* for an unknown id and otherwise the job's status.
C8_ResultOutcomes ==
    \A j \in JobIds :
        LET r == ResultResponse(j)
            known == j \in Jobs
            complete == known /\ Status(j) = "COMPLETE"
            stored == complete /\ job_status[j].result_path # None
                               /\ job_status[j].result_path \in files
        IN  /\ r.code \in {200, 404, 409, 500}
            /\ r.code = 404 <=> ~known
            /\ r.code = 409 <=> (known /\ Status(j) \in {"PENDING", "PROCESSING", "FAILED"})
            /\ r.code = 500 <=> (complete /\ ~stored)
            /\ r.code = 200 <=> stored
            /\ r.code = 200 => r.body = job_status[j].result_path /\ r.body \in files
            /\ StatusResponse(j).code = 404 <=> ~known
            /\ known => StatusResponse(j) = Response("status", j, 200, <<Status(j)>>)

\* One job's result is served while another COMPLETE job's file is missing.
C8_Witness ==
    \E j, k \in Jobs :
        /\ ResultResponse(j).code = 200
        /\ ResultResponse(k).code = 500
        /\ Status(k) = "COMPLETE"

\* ------------------------------------------------------------------- C9
\* The stages of a list of filter graph entries, in order, without the
\* separators.
RECURSIVE StagesOf(_)
StagesOf(list) ==
    IF list = <<>> THEN <<>>
    ELSE SelectSeq(Head(list), LAMBDA e : "ins" \in DOMAIN e) \o StagesOf(Tail(list))

IsScale(stage) == stage.filter.name = "scale"

ImagePositions(ovs) == {k \in 1..Len(ovs) : ovs[k].type = "image"}

\* The stage built last.
LastStage(list) == LET stages == StagesOf(list) IN stages[Len(stages)]

\* The stream the command passes to the video -map.
VideoMap(cmd) == cmd[Len(cmd) - 13]

\* C9: for a list of N text and image overlays whose image assets are all
\* present, the compiled graph has N entries, N stages that are no scaling
\* stage and one scaling stage per image overlay, and the stream given to
\* the video -map is the output label of the stage built for the last
\* overlay.
C9_StageCountAndFinalStream ==
    \A j \in JobIds :
        LET ovs == overlays[j]
            N == Len(ovs)
            stages == StagesOf(filter_complex_list[j])
        IN  ( /\ command[j] # <<>>
              /\ \A k \in 1..N : ovs[k].type \in {"text", "image"}
              /\ skipped[j] = {} )
            => /\ Len(filter_complex_list[j]) = N
               /\ Cardinality({k \in 1..Len(stages) : ~IsScale(stages[k])}) = N
               /\ Cardinality({k \in 1..Len(stages) : IsScale(stages[k])})
                    = Cardinality(ImagePositions(ovs))
               /\ command[j][Len(command[j]) - 14] = "-map"
               /\ N > 0 => /\ VideoMap(command[j]) = LastStage(filter_complex_list[j]).out
                           /\ VideoMap(command[j]) = NewStream(N)
                           /\ ~IsScale(LastStage(filter_complex_list[j]))

\* A command was built for three overlays, text and image mixed, with no
\* overlay skipped.
C9_Witness ==
    \E j \in JobIds :
        /\ command[j] # <<>>
        /\ Len(overlays[j]) = 3
        /\ skipped[j] = {}
        /\ overlays[j][1].type = "text"
        /\ overlays[j][2].type = "image"
        /\ overlays[j][3].type = "text"

\* ------------------------------------------------------------------ C10
\* The stream labels a stage reads or writes.
Labels(stage) == Elems(stage.ins) \cup {stage.out}

\* The image overlays the loop has included so far.
Included(j) ==
    {k \in 1..(idx[j] - 1) : overlays[j][k].type = "image"} \ skipped[j]

FilterGraph(cmd) == cmd[Len(cmd) - 15]

\* C11 (as claimed): the command built for an empty overlay list maps the
\* primary stream [0:v], registers no auxiliary input, and does not pass
\* -filter_complex with an empty filter graph.
C11_EmptyListCommandValid ==
    \A j \in JobIds :
        (command[j] # <<>> /\ overlays[j] = <<>>)
        => /\ VideoMap(command[j]) = InputStream(0)
           /\ input_files[j] = <<"ffmpeg", "-y", "-i", args[j].video_path>>
           /\ ~ ( /\ command[j][Len(command[j]) - 16] = "-filter_complex"
                  /\ FilterGraph(command[j]) = <<>> )

\* ------------------------------------------------------------------ C12
IsSep(e) == "sep" \in DOMAIN e

\* The stages of a filter graph, without its separators.
GraphStages(g) == SelectSeq(g, LAMBDA e : ~IsSep(e))

\* The overlays of job j that have a stage in the graph: the text overlays
\* and the image overlays that were not skipped.
Emitted(j) ==
    {k \in 1..Len(overlays[j]) : overlays[j][k].type \in {"text", "image"}}
        \ skipped[j]

\* The shape of the command of job j, its separators left aside: the
\* encoder, -y, the primary input, one -i per auxiliary input, the filter
\* graph whose elements are alternately a stage and a separator and whose
\* text and compositing stages are those of the emitted overlays in overlay
\* order, the two maps, the codec options, and the output path last.
CommandShape(j) ==
    LET cmd == command[j]
        n == Len(cmd)
        aux == (n - 21) \div 2
        g == FilterGraph(cmd)
        main == SelectSeq(GraphStages(g), LAMBDA st : ~IsScale(st))
    IN  /\ n >= 21 /\ (n - 21) % 2 = 0
        /\ SubSeq(cmd, 1, 3) = <<"ffmpeg", "-y", "-i">>
        /\ cmd[4] = args[j].video_path
        /\ \A k \in 1..aux : cmd[3 + 2 * k] = "-i" /\ cmd[4 + 2 * k] = ImagePath
        /\ aux = Cardinality(Emitted(j) \cap ImagePositions(overlays[j]))
        /\ cmd[n - 16] = "-filter_complex"
        /\ \A i \in 1..Len(g) : IsSep(g[i]) <=> i % 2 = 0
        /\ g # <<>> => ~IsSep(g[Len(g)])
        /\ Len(main) = Cardinality(Emitted(j))
        /\ \A i \in 1..Len(main) :
              \E k \in Emitted(j) :
                 /\ Cardinality({m \in Emitted(j) : m <= k}) = i
                 /\ main[i].out = NewStream(k)
                 /\ main[i].filter =
                       IF overlays[j][k].type = "text"
                       THEN TextFilter(overlays[j][k])
                       ELSE OverlayFilter(overlays[j][k])
        /\ cmd[n - 14] = "-map"
        /\ cmd[n - 13] = current_stream[j]
        /\ SubSeq(cmd, n - 12, n - 1) =
              <<"-map", "0:a?", "-c:v", "libx264", "-crf", "23",
                "-preset", "veryfast", "-c:a", "aac", "-b:a", "192k">>
        /\ cmd[n] = OutputPath(args[j].job_id)

\* C12 (as claimed): the command has the shape above, and between every
\* two consecutive stages of its graph stands the separator "; ".
C12_StagesJoinedBySemicolon ==
    \A j \in JobIds :
        command[j] # <<>>
        => /\ CommandShape(j)
           /\ LET g == FilterGraph(command[j])
              IN  \A i \in 1..Len(g) : IsSep(g[i]) => g[i].sep = "; "

\* C12 (amended): the command has the shape above; the separator is "; "
\* between the scaling sub-stage of an image overlay and its compositing
\* stage, and ", " between the stages of two consecutive overlays.
C12_CommandShape ==
    \A j \in JobIds :
        command[j] # <<>>
        => /\ CommandShape(j)
           /\ LET g == FilterGraph(command[j])
              IN  \A i \in 1..Len(g) :
                     IsSep(g[i])
                     => g[i].sep = IF IsScale(g[i - 1]) THEN "; " ELSE ", "

\* A command was built for an image, a text and an image overlay, none of
\* them skipped: its graph has five stages and four separators.
C12_Witness ==
    \E j \in JobIds :
        /\ command[j] # <<>>
        /\ Len(overlays[j]) = 3
        /\ skipped[j] = {}
        /\ overlays[j][1].type = "image"
        /\ overlays[j][2].type = "text"
        /\ overlays[j][3].type = "image"
        /\ Len(FilterGraph(command[j])) = 9

\* ------------------------------------------------------------------ C13
\* A text value in which a backslash escapes the character after it is
\* neutralised when every single quote, colon and backslash in it is
\* escaped: read from the left, a backslash takes the next character with
\* it, and no single quote or colon is met outside such a pair.
RECURSIVE Neutralised(_)
Neutralised(text) ==
    IF text = <<>> THEN TRUE
    ELSE IF Head(text) = "\\"
         THEN Len(text) >= 2 /\ Neutralised(Tail(Tail(text)))
         ELSE Head(text) \notin {"'", ":"} /\ Neutralised(Tail(text))

\* The characters such a value stands for: each escaping backslash dropped.
RECURSIVE Unescape(_)
Unescape(text) ==
    IF text = <<>> THEN <<>>
    ELSE IF Head(text) = "\\"
         THEN (IF Len(text) >= 2 THEN <<text[2]>> \o Unescape(Tail(Tail(text)))
               ELSE <<>>)
         ELSE <<Head(text)>> \o Unescape(Tail(text))

\* C13 (as claimed): in the text value of every text stage, every single
\* quote, colon and backslash of the overlay's content is neutralised by
\* escaping, so that the value stands for the content.
C13_ContentNeutralised ==
    \A j \in JobIds :
        LET stages == StagesOf(filter_complex_list[j])
        IN  \A n \in 1..Len(stages), k \in 1..Len(overlays[j]) :
               ( /\ overlays[j][k].type = "text"
                 /\ stages[n].out = NewStream(k) )
               => /\ Neutralised(stages[n].filter.text)
                  /\ Unescape(stages[n].filter.text) = overlays[j][k].content

\* ------------------------------------------------------------------ C14
\* The main input of a text or compositing stage: the stream it draws on.
MainInput(stage) == stage.ins[1]

\* C14: the stages built so far form a strict chain in overlay order.  The
\* first text or compositing stage reads the primary stream [0:v] and each
\* later one reads the output of the one before it; a scaling sub-stage is
\* followed at once by the compositing stage that reads its output; every
\* output label is a [v<k>] or [img_scaled<k>] of an overlay position k and
\* is written by exactly one stage; and no stage reads such a label that no
\* earlier stage wrote.
C14_StagesFormChain ==
    \A j \in JobIds :
        LET stages == StagesOf(filter_complex_list[j])
            main == SelectSeq(stages, LAMBDA st : ~IsScale(st))
        IN  /\ \A i \in 1..Len(main) :
                  MainInput(main[i]) =
                     IF i = 1 THEN InputStream(0) ELSE main[i - 1].out
            /\ \A n \in 1..Len(stages) :
                  /\ \E k \in 1..Len(overlays[j]) :
                        stages[n].out =
                           IF IsScale(stages[n]) THEN ScaleStream(k) ELSE NewStream(k)
                  /\ IsScale(stages[n])
                     => /\ n < Len(stages)
                        /\ ~IsScale(stages[n + 1])
                        /\ stages[n + 1].ins[2] = stages[n].out
                  /\ \A m \in 1..Len(stages) :
                        m # n => stages[m].out # stages[n].out
                  /\ \A label \in Elems(stages[n].ins) :
                        label[1] # "in"
                        => \E m \in 1..(n - 1) : stages[m].out = label

\* Of a text, an image and a text overlay the image was skipped, and the
\* second text stage has been built behind the first.
C14_Witness ==
    \E j \in JobIds :
        /\ Len(overlays[j]) = 3
        /\ overlays[j][1].type = "text"
        /\ overlays[j][2].type = "image"
        /\ overlays[j][3].type = "text"
        /\ skipped[j] = {2}
        /\ Len(filter_complex_list[j]) = 2

\* ------------------------------------------------------------------ C15
\* The number of -i arguments registered so far (they stand at the odd
\* positions of input_files).
InputCount(j) ==
    Cardinality({p \in 1..Len(input_files[j]) :
                    p % 2 = 1 /\ input_files[j][p] = "-i"})

\* C15: the n-th scaling sub-stage belongs to the n-th included image
\* overlay and reads the encoder input n, which is the position of its
\* asset among the -i arguments (the primary input at 0); the auxiliary -i
\* arguments are as many as the included image overlays, whatever text
\* overlays and skipped image overlays precede them.
C15_AssetIndexMatchesInput ==
    \A j \in JobIds :
        input_files[j] # <<>>
        => LET scales == SelectSeq(StagesOf(filter_complex_list[j]), IsScale)
           IN  /\ InputCount(j) - 1 = Cardinality(Included(j))
               /\ Len(scales) = Cardinality(Included(j))
               /\ \A n \in 1..Len(scales) :
                     /\ scales[n].ins = <<InputStream(n)>>
                     /\ input_files[j][3 + 2 * n] = "-i"
                     /\ input_files[j][4 + 2 * n] = ImagePath
                     /\ \E k \in Included(j) :
                           /\ Cardinality({m \in Included(j) : m <= k}) = n
                           /\ scales[n].out = ScaleStream(k)

\* Behind a text overlay and a skipped image overlay, the third overlay's
\* image has been registered as the first auxiliary input.
C15_Witness ==
    \E j \in JobIds :
        /\ Len(overlays[j]) = 3
        /\ overlays[j][1].type = "text"
        /\ overlays[j][2].type = "image"
        /\ overlays[j][3].type = "image"
        /\ skipped[j] = {2}
        /\ asset_input_index[j] = 2
        /\ Len(input_files[j]) = 6

\* ------------------------------------------------------------------ C16
\* C16 (as claimed): in every state a query can observe, a job's
\* result_path is set only if its status is COMPLETE: never while the job
\* is PENDING, PROCESSING or FAILED.
C16_ResultPathOnlyWhenComplete ==
    \A j \in Jobs :
        job_status[j].result_path # None => Status(j) = "COMPLETE"

\* ------------------------------------------------------------------ C17
\* C17 (as claimed): the task of a job runs once and leaves the job
\* COMPLETE or FAILED: when the task has ended, after which no step
\* changes the job any more, the job is not PENDING or PROCESSING.
C17_EndedTaskLeavesTerminalStatus ==
    \A j \in Jobs :
        pc[j] = "done" => Status(j) \in {"COMPLETE", "FAILED"}

\* ------------------------------------------------------------------ C18
\* The files of job b: its temporary input and its output.
FilesOf(storage, b) ==
    storage \cap {job_status[b].video_path, OutputPath(b)}

\* C18: a step that is not a step of job b's own task (a step of another
\* job's task, a submission, a query) leaves job b's record as it is,
\* neither deletes nor writes job b's input file or output path, and
\* removes no file on job b's behalf.
C18_JobsIsolated ==
    [][\A b \in Jobs :
          pc'[b] = pc[b]
          => /\ b \in DOMAIN job_status'
             /\ job_status'[b] = job_status[b]
             /\ FilesOf(files', b) = FilesOf(files, b)
             /\ removed'[b] = removed[b]]_vars

\* The task of job 1 has ended, its input removed and its output written,
\* while the task of job 2 is at the encoder with its input still stored.
C18_Witness ==
    /\ Jobs = {1, 2}
    /\ pc[1] = "done"
    /\ removed[1] # <<>>
    /\ OutputPath(1) \in files
    /\ pc[2] = "run"
    /\ Status(2) = "PROCESSING"
    /\ job_status[2].video_path \in files

====
